---- MODULE Spec2Model ----
(***************************************************************************)
(* Session manager (AuthProvider), route guard (ProtectedRoute), login     *)
(* page and gist service of the gist client, as a state machine.           *)
(*                                                                         *)
(* One action is one browser task: an event handler or the continuation    *)
(* of an answered remote call together with the promise continuations it   *)
(* resumes, followed by the render React performs for the batched state    *)
(* updates (routes, guard and <Navigate> effects included).                *)
(***************************************************************************)
EXTENDS Integers, Sequences, FiniteSets, Bags, TLC

(* ---- bounds ---- *)
MaxCalls == 3

(* ---- values ---- *)
Null == <<>>
Some(v) == <<v>>

Tokens == {"ghp_a", "ghp_b"}
FormInputs == Tokens \cup {""}
UserOf == [t \in Tokens |-> IF t = "ghp_a" THEN "alice" ELSE "bob"]
GistIds == {"g1"}

TokenKey == "github_token"
ThemeKey == "gist-client-theme"
StorageKeys == {TokenKey, ThemeKey}

ProtectedPaths == {"/", "/gists"}
Paths == ProtectedPaths \cup {"/login", "/nowhere"}

Origins == {"mount", "form", "direct"}
CallSet == [tok : Tokens, origin : Origins,
            from : {Null} \cup {Some(p) : p \in ProtectedPaths},
            orphan : BOOLEAN]

RemoteFaults == {"network_error", "unauthorized"}

VARIABLES
  isAuthenticated, isLoading, user, token, octokit,   \* AuthProvider state
  localStorage,                                       \* window.localStorage
  mounted,                                            \* mount effect has run
  inflight,                                           \* login calls awaiting the probe
  location,                                           \* router location
  isSubmitting, error,                                \* LoginPage state
  view, guard,                                        \* what the last render produced
  starred,                                            \* remote: gists starred by the caller
  svc,                                                \* last GistService call and its result
  lastOp,                                             \* last session operation, with pre-state
  probes, bootToken, mountRuns, bootOk, bootFail,     \* history
  userActed, bypassed,
  page,                                               \* state of the page component shown
  pending,                                            \* page requests awaiting the remote
  form,                                               \* react-hook-form values of the page
  event                                      \* history: the last step of a page

session == <<isAuthenticated, isLoading, user, token, octokit>>
hist == <<probes, bootToken, mountRuns, bootOk, bootFail, userActed, bypassed>>
gistvars == <<page, pending, form, event>>
vars == <<session, localStorage, mounted, inflight, location, isSubmitting,
          error, view, guard, starred, svc, lastOp, hist, gistvars>>

(* ---- localStorage ---- *)
getItem(store, k) == store[k]
\* variant: the value is written under another key
setItem_otherKey(store, k, v) == [store EXCEPT ![ThemeKey] = Some(v)]

setItem(store, k, v) == [store EXCEPT ![k] = Some(v)]
removeItem(store, k) == [store EXCEPT ![k] = Null]

(* ---- remote identity endpoint and client construction ---- *)
Octokit(t) == [auth |-> t]
getAuthenticated(t) == [login |-> UserOf[t]]

Snapshot == [isAuthenticated |-> isAuthenticated, isLoading |-> isLoading,
             user |-> user, token |-> token, octokit |-> octokit,
             stored |-> localStorage]

(* ---- routes ---- *)
\* variant: the authentication test comes before the loading test
ProtectedRoute_authFirst(isL, isA, loc) ==
  IF ~isA
    THEN [kind |-> "navigate",
          to |-> [pathname |-> "/login", from |-> Some(loc.pathname)]]
    ELSE IF isL THEN [kind |-> "spinner", to |-> loc]
    ELSE [kind |-> "outlet", to |-> loc]

ProtectedRoute(isL, isA, loc) ==
  IF isL THEN [kind |-> "spinner", to |-> loc]
  ELSE IF ~isA
    THEN [kind |-> "navigate",
          to |-> [pathname |-> "/login", from |-> Some(loc.pathname)]]
    ELSE [kind |-> "outlet", to |-> loc]

\* variant: the captured origin is ignored
FromOrRoot_rootOnly(from) == "/"

FromOrRoot(from) == IF from # Null THEN from[1] ELSE "/"

LoginPage(isL, isA, loc) ==
  IF isA
    THEN [kind |-> "navigate",
          to |-> [pathname |-> FromOrRoot(loc.from), from |-> Null]]
    ELSE IF isL THEN [kind |-> "login_spinner", to |-> loc]
    ELSE [kind |-> "login_form", to |-> loc]

App(isL, isA, loc) ==
  IF loc.pathname = "/login" THEN LoginPage(isL, isA, loc)
  ELSE IF loc.pathname \in ProtectedPaths THEN ProtectedRoute(isL, isA, loc)
  ELSE [kind |-> "not_found", to |-> loc]

NoGuard == [out |-> "none", at |-> "none"]

GuardOf(loc, r, g) ==
  IF loc.pathname \in ProtectedPaths
    THEN [out |-> IF r.kind = "navigate" THEN "redirect" ELSE r.kind,
          at |-> loc.pathname]
    ELSE g

RECURSIVE Render(_, _, _, _, _)
Render(isL, isA, loc, g, fuel) ==
  LET r == App(isL, isA, loc)
      g2 == GuardOf(loc, r, g)
  IN IF r.kind = "navigate" /\ fuel > 0
       THEN Render(isL, isA, r.to, g2, fuel - 1)
       ELSE [location |-> r.to, view |-> r.kind, guard |-> g2]

RenderDepth == 3

Orphaned(calls) ==
  BagOfAll(LAMBDA c : IF c.origin = "form" THEN [c EXCEPT !.orphan = TRUE] ELSE c,
           calls)

Op(name, tok, origin, from, probe, threw) ==
  [op |-> name, tok |-> tok, origin |-> origin, from |-> from, probe |-> probe,
   threw |-> threw, pre |-> Snapshot]

\* no page component mounted, nothing requested
NoPage == [route |-> "none", id |-> "none", gist |-> Null, gists |-> <<>>,
           starredGists |-> <<>>, isLoading |-> FALSE, error |-> Null,
           isSubmitting |-> FALSE, isDeleting |-> FALSE, showDeleteAlert |-> FALSE]
NoForm == [description |-> Some(""), public |-> TRUE, files |-> <<>>]
NoCall == [op |-> "none", id |-> "none", remote |-> "none", ret |-> Null,
           threw |-> FALSE, err |-> "none", calls |-> <<>>, data |-> Null]
NoEvent == [kind |-> "none", fetch |-> Null, threw |-> FALSE, toast |-> Null]
\* toast({ title, variant })
Toast(title, variant) == Some([title |-> title, variant |-> variant])
Idle ==
  /\ page = NoPage
  /\ pending = EmptyBag
  /\ form = NoForm
  /\ event = NoEvent

(* ---- initial state ---- *)
Init ==
  /\ isAuthenticated = FALSE
  /\ isLoading = TRUE
  /\ user = Null
  /\ token = Null
  /\ octokit = Null
  /\ localStorage \in
       {[k \in StorageKeys |-> IF k = TokenKey THEN tv ELSE th] :
          tv \in {Null} \cup {Some(t) : t \in Tokens}, th \in {Some("dark")}}
  /\ mounted = FALSE
  /\ inflight = EmptyBag
  /\ location \in [pathname : Paths, from : {Null}]
  /\ isSubmitting = FALSE
  /\ error = Null
  /\ LET r == Render(TRUE, FALSE, location, NoGuard, RenderDepth)
     IN view = r.view /\ guard = r.guard
  /\ starred \in SUBSET GistIds
  /\ svc = NoCall
  /\ lastOp = [op |-> "init", tok |-> Null, origin |-> "none", from |-> Null,
               probe |-> "none",
               threw |-> FALSE,
               pre |-> [isAuthenticated |-> FALSE, isLoading |-> TRUE,
                        user |-> Null, token |-> Null, octokit |-> Null,
                        stored |-> localStorage]]
  /\ probes = 0
  /\ bootToken = localStorage[TokenKey]
  /\ mountRuns = 0
  /\ bootOk = 0
  /\ bootFail = 0
  /\ userActed = FALSE
  /\ bypassed = FALSE
  /\ Idle

(* ---- AuthProvider ---- *)
\* login, up to the await of the identity probe
login_begin(s) == [s EXCEPT !.isLoading = TRUE]

\* variant: the catch block does not rethrow
login_settle_swallows(newToken, probeOk, s) ==
  IF probeOk
    THEN [state |-> [s EXCEPT !.stored = setItem(s.stored, TokenKey, newToken),
                              !.token = Some(newToken),
                              !.user = Some(getAuthenticated(newToken)),
                              !.octokit = Some(Octokit(newToken)),
                              !.isAuthenticated = TRUE,
                              !.isLoading = FALSE],
          threw |-> FALSE]
    ELSE [state |-> [s EXCEPT !.isLoading = FALSE], threw |-> FALSE]

\* variant: the token is not persisted
login_settle_noPersist(newToken, probeOk, s) ==
  IF probeOk
    THEN [state |-> [s EXCEPT !.token = Some(newToken),
                              !.user = Some(getAuthenticated(newToken)),
                              !.octokit = Some(Octokit(newToken)),
                              !.isAuthenticated = TRUE,
                              !.isLoading = FALSE],
          threw |-> FALSE]
    ELSE [state |-> [s EXCEPT !.isLoading = FALSE], threw |-> TRUE]

\* variant: setOctokit is missing
login_settle_noOctokit(newToken, probeOk, s) ==
  IF probeOk
    THEN [state |-> [s EXCEPT !.stored = setItem(s.stored, TokenKey, newToken),
                              !.token = Some(newToken),
                              !.user = Some(getAuthenticated(newToken)),
                              !.isAuthenticated = TRUE,
                              !.isLoading = FALSE],
          threw |-> FALSE]
    ELSE [state |-> [s EXCEPT !.isLoading = FALSE], threw |-> TRUE]

\* variant: setUser is missing
login_settle_noUser(newToken, probeOk, s) ==
  IF probeOk
    THEN [state |-> [s EXCEPT !.stored = setItem(s.stored, TokenKey, newToken),
                              !.token = Some(newToken),
                              !.octokit = Some(Octokit(newToken)),
                              !.isAuthenticated = TRUE,
                              !.isLoading = FALSE],
          threw |-> FALSE]
    ELSE [state |-> [s EXCEPT !.isLoading = FALSE], threw |-> TRUE]

\* variant: the catch block resets the session
login_settle_clearsOnFail(newToken, probeOk, s) ==
  IF probeOk
    THEN [state |-> [s EXCEPT !.stored = setItem(s.stored, TokenKey, newToken),
                              !.token = Some(newToken),
                              !.user = Some(getAuthenticated(newToken)),
                              !.octokit = Some(Octokit(newToken)),
                              !.isAuthenticated = TRUE,
                              !.isLoading = FALSE],
          threw |-> FALSE]
    ELSE [state |-> [s EXCEPT !.token = Null, !.user = Null, !.octokit = Null,
                              !.isAuthenticated = FALSE, !.isLoading = FALSE],
          threw |-> TRUE]

\* variant: the token is persisted whatever the probe answers
login_settle_persistsFirst(newToken, probeOk, s) ==
  IF probeOk
    THEN [state |-> [s EXCEPT !.stored = setItem(s.stored, TokenKey, newToken),
                              !.token = Some(newToken),
                              !.user = Some(getAuthenticated(newToken)),
                              !.octokit = Some(Octokit(newToken)),
                              !.isAuthenticated = TRUE,
                              !.isLoading = FALSE],
          threw |-> FALSE]
    ELSE [state |-> [s EXCEPT !.stored = setItem(s.stored, TokenKey, newToken),
                              !.isLoading = FALSE],
          threw |-> TRUE]

\* variant: loading is cleared on success only
login_settle_noFinally(newToken, probeOk, s) ==
  IF probeOk
    THEN [state |-> [s EXCEPT !.stored = setItem(s.stored, TokenKey, newToken),
                              !.token = Some(newToken),
                              !.user = Some(getAuthenticated(newToken)),
                              !.octokit = Some(Octokit(newToken)),
                              !.isAuthenticated = TRUE,
                              !.isLoading = FALSE],
          threw |-> FALSE]
    ELSE [state |-> s, threw |-> TRUE]

\* login, from the answer of the probe to the end of the finally block
login_settle(newToken, probeOk, s) ==
  IF probeOk
    THEN [state |-> [s EXCEPT !.stored = setItem(s.stored, TokenKey, newToken),
                              !.token = Some(newToken),
                              !.user = Some(getAuthenticated(newToken)),
                              !.octokit = Some(Octokit(newToken)),
                              !.isAuthenticated = TRUE,
                              !.isLoading = FALSE],
          threw |-> FALSE]
    ELSE [state |-> [s EXCEPT !.isLoading = FALSE], threw |-> TRUE]

\* variant: the stored token is kept
mount_catch_keepsToken(s) == [s EXCEPT !.isLoading = FALSE]

\* the .catch of the mount effect
mount_catch(s) ==
  [s EXCEPT !.stored = removeItem(s.stored, TokenKey), !.isLoading = FALSE]

\* variant: the else branch is missing
mount_effect_noElse(storedToken, s) ==
  IF storedToken # Null THEN login_begin(s) ELSE s

\* one run of the mount effect, up to the await inside login
mount_effect(storedToken, s) ==
  IF storedToken # Null THEN login_begin(s) ELSE [s EXCEPT !.isLoading = FALSE]

\* variant: the stored token is kept
logout_keepsStored(s) ==
  [s EXCEPT !.token = Null, !.user = Null, !.octokit = Null,
            !.isAuthenticated = FALSE]

\* variant: loading is reset as well
logout_resetsLoading(s) ==
  [s EXCEPT !.stored = removeItem(s.stored, TokenKey),
            !.token = Null, !.user = Null, !.octokit = Null,
            !.isAuthenticated = FALSE, !.isLoading = FALSE]

logout(s) ==
  [s EXCEPT !.stored = removeItem(s.stored, TokenKey),
            !.token = Null, !.user = Null, !.octokit = Null,
            !.isAuthenticated = FALSE]

Apply(s) ==
  /\ isAuthenticated' = s.isAuthenticated
  /\ isLoading' = s.isLoading
  /\ user' = s.user
  /\ token' = s.token
  /\ octokit' = s.octokit
  /\ localStorage' = s.stored

\* commit: render with the new session state at the new location; a LoginPage
\* that leaves the tree loses its state, and its pending onSubmit is orphaned
Commit(s, loc, calls, sub, err) ==
  LET r == Render(s.isLoading, s.isAuthenticated, loc, NoGuard, RenderDepth)
      unmount == location.pathname = "/login" /\ r.location.pathname # "/login"
  IN /\ Apply(s)
     /\ location' = r.location
     /\ view' = r.view
     /\ guard' = r.guard
     /\ isSubmitting' = IF unmount THEN FALSE ELSE sub
     /\ error' = IF unmount THEN Null ELSE err
     /\ inflight' = IF unmount THEN Orphaned(calls) ELSE calls

Copies(c, n) == [x \in {c} |-> n]

\* useEffect(..., []) of AuthProvider; StrictMode runs it twice
Mount(strict) ==
  LET storedToken == getItem(localStorage, TokenKey)
      runs == IF strict THEN 2 ELSE 1
  IN /\ ~mounted
     /\ mounted' = TRUE
     /\ mountRuns' = runs
     /\ lastOp' = Op("mount", storedToken, "mount", Null, "none", FALSE)
     /\ IF storedToken # Null
          THEN /\ Commit(mount_effect(storedToken, Snapshot), location,
                         inflight (+) Copies([tok |-> storedToken[1], origin |-> "mount",
                                              from |-> Null, orphan |-> FALSE], runs),
                         isSubmitting, error)
               /\ probes' = probes + runs
          ELSE /\ Commit(mount_effect(storedToken, Snapshot), location, inflight,
                         isSubmitting, error)
               /\ probes' = probes
     /\ UNCHANGED <<starred, svc, bootToken, bootOk, bootFail, userActed, bypassed>>
     /\ UNCHANGED gistvars

\* a dependent calls login(t) of the context directly
Login(t) ==
  /\ mounted
  /\ probes < MaxCalls
  /\ Commit(login_begin(Snapshot), location,
            inflight (+) Copies([tok |-> t, origin |-> "direct", from |-> Null,
                                 orphan |-> FALSE], 1),
            isSubmitting, error)
  /\ probes' = probes + 1
  /\ lastOp' = Op("login", Some(t), "direct", Null, "none", FALSE)
  /\ userActed' = TRUE
  /\ bypassed' = TRUE
  /\ UNCHANGED <<mounted, starred, svc, bootToken, mountRuns, bootOk, bootFail>>
  /\ UNCHANGED gistvars

formSchema(v) == Len(v) >= 1

\* LoginPage.onSubmit, up to the await of login
SubmitForm(v) ==
  /\ mounted
  /\ view = "login_form"
  /\ ~isSubmitting
  /\ formSchema(v)
  /\ probes < MaxCalls
  /\ Commit(login_begin(Snapshot), location,
            inflight (+) Copies([tok |-> v, origin |-> "form", from |-> location.from,
                                 orphan |-> FALSE], 1),
            TRUE, Null)
  /\ probes' = probes + 1
  /\ lastOp' = Op("submit", Some(v), "form", location.from, "none", FALSE)
  /\ userActed' = TRUE
  /\ UNCHANGED <<mounted, starred, svc, bootToken, mountRuns, bootOk, bootFail, bypassed>>
  /\ UNCHANGED gistvars

\* the probe of call c answers; login resumes, then its caller
Settle(c, probeOk) ==
  LET r == login_settle(c.tok, probeOk, Snapshot)
      s == IF c.origin = "mount" /\ r.threw THEN mount_catch(r.state) ELSE r.state
      loc == IF c.origin = "form" /\ ~r.threw
               THEN [pathname |-> FromOrRoot(c.from), from |-> Null]
               ELSE location
      live == c.origin = "form" /\ ~c.orphan
  IN /\ BagIn(c, inflight)
     /\ Commit(s, loc, inflight (-) Copies(c, 1),
               IF live THEN FALSE ELSE isSubmitting,
               IF live /\ r.threw THEN Some("Invalid token or authentication failed")
               ELSE error)
     /\ lastOp' = Op(IF r.threw THEN "loginFail" ELSE "loginOk", Some(c.tok), c.origin,
                     c.from, IF probeOk THEN "ok" ELSE "fail", r.threw)
     /\ bootOk' = IF c.origin = "mount" /\ ~r.threw THEN bootOk + 1 ELSE bootOk
     /\ bootFail' = IF c.origin = "mount" /\ r.threw THEN bootFail + 1 ELSE bootFail
     /\ UNCHANGED <<mounted, starred, svc, probes, bootToken, mountRuns, userActed,
                    bypassed>>
     /\ UNCHANGED gistvars

LoginSucceeds(c) == Settle(c, TRUE)
LoginFails(c) == Settle(c, FALSE)

\* a dependent calls logout() of the context directly
Logout ==
  /\ mounted
  /\ Commit(logout(Snapshot), location, inflight, isSubmitting, error)
  /\ lastOp' = Op("logout", Null, "direct", Null, "none", FALSE)
  /\ userActed' = TRUE
  /\ bypassed' = TRUE
  /\ UNCHANGED <<mounted, starred, svc, probes, bootToken, mountRuns, bootOk, bootFail>>
  /\ UNCHANGED gistvars

\* Header.handleLogout; the header is part of RootLayout, its menu needs a user
HandleLogout ==
  /\ mounted
  /\ location.pathname \in ProtectedPaths
  /\ user # Null
  /\ Commit(logout(Snapshot), [pathname |-> "/login", from |-> Null], inflight,
            isSubmitting, error)
  /\ lastOp' = Op("logout", Null, "header", Null, "none", FALSE)
  /\ userActed' = TRUE
  /\ UNCHANGED <<mounted, starred, svc, probes, bootToken, mountRuns, bootOk, bootFail,
                 bypassed>>
  /\ UNCHANGED gistvars

\* the user follows a link or the history to path p
Navigate(p) ==
  /\ mounted
  /\ Commit(Snapshot, [pathname |-> p, from |-> Null], inflight, isSubmitting, error)
  /\ lastOp' = Op("navigate", Null, "none", Null, "none", FALSE)
  /\ userActed' = TRUE
  /\ UNCHANGED <<mounted, starred, svc, probes, bootToken, mountRuns, bootOk, bootFail,
                 bypassed>>
  /\ UNCHANGED gistvars

(* ---- GistService ---- *)
\* octokit.gists.checkIsStarred: 204 when starred, 404 when not, or a fault
checkIsStarred(id, fault, st) ==
  IF fault \in RemoteFaults THEN [ok |-> FALSE, status |-> fault]
  ELSE IF id \in st THEN [ok |-> TRUE, status |-> "no_content"]
  ELSE [ok |-> FALSE, status |-> "not_found"]

\* variant: only "not found" is mapped to false, other errors are rethrown
isGistStarred_rethrows(id, fault, st) ==
  LET r == checkIsStarred(id, fault, st)
  IN IF r.ok THEN [ret |-> Some(TRUE), threw |-> FALSE, remote |-> r]
     ELSE IF r.status = "not_found"
       THEN [ret |-> Some(FALSE), threw |-> FALSE, remote |-> r]
       ELSE [ret |-> Null, threw |-> TRUE, remote |-> r]

isGistStarred(id, fault, st) ==
  LET r == checkIsStarred(id, fault, st)
  IN IF r.ok THEN [ret |-> Some(TRUE), threw |-> FALSE, remote |-> r]
     ELSE [ret |-> Some(FALSE), threw |-> FALSE, remote |-> r]

IsGistStarred(id, fault) ==
  /\ octokit # Null
  /\ LET r == isGistStarred(id, fault, starred)
     IN svc' = [op |-> "isGistStarred", id |-> id, remote |-> r.remote.status,
                ret |-> r.ret, threw |-> r.threw, err |-> "none",
                calls |-> <<[endpoint |-> "gists.checkIsStarred", args |-> Some(id),
                            ok |-> r.remote.ok]>>,
                data |-> Null]
  /\ UNCHANGED <<session, localStorage, mounted, inflight, location, isSubmitting,
                 error, view, guard, starred, lastOp, hist, gistvars>>

Next ==
  \/ \E strict \in BOOLEAN : Mount(strict)
  \/ \E t \in Tokens : Login(t)
  \/ \E v \in FormInputs : SubmitForm(v)
  \/ \E c \in CallSet : LoginSucceeds(c)
  \/ \E c \in CallSet : LoginFails(c)
  \/ Logout
  \/ HandleLogout
  \/ \E p \in Paths : Navigate(p)
  \/ \E id \in GistIds, fault \in RemoteFaults \cup {"none"} : IsGistStarred(id, fault)

Spec == Init /\ [][Next]_vars

\* startup without user interaction: the mount effect and the answers to its probes
NextStartup ==
  \/ \E strict \in BOOLEAN : Mount(strict)
  \/ \E c \in CallSet : LoginSucceeds(c)
  \/ \E c \in CallSet : LoginFails(c)

\* the mount effect runs; while probes are pending, one of them is answered
StartupSpec ==
  /\ Init
  /\ [][NextStartup]_vars
  /\ WF_vars(\E strict \in BOOLEAN : Mount(strict))
  /\ WF_vars(\E c \in CallSet : LoginSucceeds(c) \/ LoginFails(c))

\* the operations of the session manager and the callers it has in the UI
SessionNext ==
  \/ \E strict \in BOOLEAN : Mount(strict)
  \/ \E t \in Tokens : Login(t)
  \/ \E v \in FormInputs : SubmitForm(v)
  \/ \E c \in CallSet : LoginSucceeds(c)
  \/ \E c \in CallSet : LoginFails(c)
  \/ Logout
  \/ HandleLogout

\* the mount effect runs, and every pending probe is answered
SessionSpec ==
  /\ Init
  /\ [][SessionNext]_vars
  /\ WF_vars(\E strict \in BOOLEAN : Mount(strict))
  /\ WF_vars(\E c \in CallSet : LoginSucceeds(c) \/ LoginFails(c))


(***************************************************************************)
(* Gist service, called with the handle of a logged-in session             *)
(***************************************************************************)
MaxGists == 2

PageIds == {"g1", "g2"}
GistFaults == RemoteFaults \cup {"not_found"}
Faults == GistFaults \cup {"none"}

\* the gists the remote holds
RemoteGists ==
  [id \in PageIds |->
     IF id = "g1"
       THEN [id |-> "g1", description |-> "demo", public |-> TRUE, updated_at |-> 1,
             files |-> ("a.txt" :> "x" @@ "b.txt" :> "y")]
       ELSE [id |-> "g2", description |-> "", public |-> FALSE, updated_at |-> 2,
             files |-> ("a.txt" :> "y")]]

GistLists ==
  UNION {[1..n -> {RemoteGists[id] : id \in PageIds}] : n \in 0..MaxGists}

\* values of Math.random(), as numerator and denominator
RandomDraws == {<<0, 1>>, <<999, 1000>>}
DrawsFor(list) == [1..Len(list) -> RandomDraws]

\* the session right after a login from the form, reached from the guard's
\* redirect of "/"
SessionOf(t) ==
  /\ isAuthenticated = TRUE
  /\ isLoading = FALSE
  /\ user = Some(getAuthenticated(t))
  /\ token = Some(t)
  /\ octokit = Some(Octokit(t))
  /\ localStorage = (TokenKey :> Some(t) @@ ThemeKey :> Some("dark"))
  /\ mounted = TRUE
  /\ inflight = EmptyBag
  /\ isSubmitting = FALSE
  /\ error = Null
  /\ view = "outlet"
  /\ lastOp = [op |-> "loginOk", tok |-> Some(t), origin |-> "form",
               from |-> Some("/"), probe |-> "ok", threw |-> FALSE,
               pre |-> [isAuthenticated |-> FALSE, isLoading |-> TRUE,
                        user |-> Null, token |-> Null, octokit |-> Null,
                        stored |-> (TokenKey :> Null @@ ThemeKey :> Some("dark"))]]
  /\ probes = 1
  /\ bootToken = Null
  /\ mountRuns = 1
  /\ bootOk = 0
  /\ bootFail = 0
  /\ userActed = TRUE
  /\ bypassed = FALSE

\* the outlet of the route guard shows path p
Shown(p) ==
  /\ location = [pathname |-> p, from |-> Null]
  /\ guard = [out |-> "outlet", at |-> p]

LoggedInAs(t) == SessionOf(t) /\ Shown("/")

(* ---- remote endpoints ---- *)
Respond(fault, data) ==
  IF fault = "none" THEN [ok |-> TRUE, status |-> "ok", data |-> Some(data)]
  ELSE [ok |-> FALSE, status |-> fault, data |-> Null]

Called(endpoint, args, r) == [endpoint |-> endpoint, args |-> args, ok |-> r.ok]

\* the identifier the remote gives to a created gist
NewId == "g2"

\* the gist the remote makes of the arguments of gists.create
Created(args) ==
  [id |-> NewId, description |-> args.description, public |-> args.public,
   updated_at |-> 3,
   files |-> [n \in DOMAIN args.files |-> args.files[n][1].content]]

\* the gist the remote makes of the arguments of gists.update
Updated(args) ==
  LET old == RemoteGists[args.gist_id]
      kept == {n \in DOMAIN old.files : n \notin DOMAIN args.files}
      set == {n \in DOMAIN args.files : args.files[n] # Null}
  IN [old EXCEPT !.description = args.description,
                 !.files = [n \in kept \cup set |->
                              IF n \in set THEN args.files[n][1].content
                              ELSE old.files[n]]]

(* ---- GistService ---- *)
Returned(v, r, calls) ==
  [ret |-> Some(v), threw |-> FALSE, err |-> "none", calls |-> calls, data |-> r.data]
Void(calls) ==
  [ret |-> Null, threw |-> FALSE, err |-> "none", calls |-> calls, data |-> Null]
Thrown(e, calls) ==
  [ret |-> Null, threw |-> TRUE, err |-> e, calls |-> calls, data |-> Null]

\* Math.floor(Math.random() * 100)
FloorRandom100(d) == (d[1] * 100) \div d[2]

\* variant: Math.ceil in place of Math.floor
addStargazersCount_ceil(gists, draws) ==
  [i \in 1..Len(gists) |->
     ("stargazers_count" :> ((draws[i][1] * 100 + draws[i][2] - 1) \div draws[i][2]))
       @@ gists[i]]

addStargazersCount(gists, draws) ==
  [i \in 1..Len(gists) |->
     ("stargazers_count" :> FloorRandom100(draws[i])) @@ gists[i]]

getGists(fault, list, draws) ==
  LET r == Respond(fault, list)
      calls == <<Called("gists.list", Null, r)>>
  IN IF r.ok THEN Returned(addStargazersCount(r.data[1], draws), r, calls)
     ELSE Thrown(r.status, calls)

getStarredGists(fault, list, draws) ==
  LET r == Respond(fault, list)
      calls == <<Called("gists.listStarred", Null, r)>>
  IN IF r.ok THEN Returned(addStargazersCount(r.data[1], draws), r, calls)
     ELSE Thrown(r.status, calls)

\* variant: the failure is caught and null is returned
getGistById_swallows(id, fault) ==
  LET r == Respond(fault, RemoteGists[id])
      calls == <<Called("gists.get", Some(id), r)>>
  IN IF r.ok THEN Returned(r.data[1], r, calls)
     ELSE Void(calls)

getGistById(id, fault) ==
  LET r == Respond(fault, RemoteGists[id])
      calls == <<Called("gists.get", Some(id), r)>>
  IN IF r.ok THEN Returned(r.data[1], r, calls)
     ELSE Thrown(r.status, calls)

CreateArgs(description, files, isPublic) ==
  [description |-> description, files |-> files, public |-> isPublic]

createGist(description, files, isPublic, fault) ==
  LET args == CreateArgs(description, files, isPublic)
      r == Respond(fault, Created(args))
      calls == <<Called("gists.create", Some(args), r)>>
  IN IF r.ok THEN Returned(r.data[1], r, calls)
     ELSE Thrown(r.status, calls)

UpdateArgs(id, description, files) ==
  [gist_id |-> id, description |-> description, files |-> files]

updateGist(id, description, files, fault) ==
  LET args == UpdateArgs(id, description, files)
      r == Respond(fault, Updated(args))
      calls == <<Called("gists.update", Some(args), r)>>
  IN IF r.ok THEN Returned(r.data[1], r, calls)
     ELSE Thrown(r.status, calls)

\* variant: a failed call is repeated once
deleteGist_retries(id, fault) ==
  LET r == Respond(fault, "no_content")
      calls == <<Called("gists.delete", Some(id), r)>>
  IN IF r.ok THEN Void(calls) ELSE Thrown(r.status, calls \o calls)

deleteGist(id, fault) ==
  LET r == Respond(fault, "no_content")
      calls == <<Called("gists.delete", Some(id), r)>>
  IN IF r.ok THEN Void(calls) ELSE Thrown(r.status, calls)

starGist(id, fault) ==
  LET r == Respond(fault, "no_content")
      calls == <<Called("gists.star", Some(id), r)>>
  IN IF r.ok THEN Void(calls) ELSE Thrown(r.status, calls)

unstarGist(id, fault) ==
  LET r == Respond(fault, "no_content")
      calls == <<Called("gists.unstar", Some(id), r)>>
  IN IF r.ok THEN Void(calls) ELSE Thrown(r.status, calls)

Now == "now"

\* variant: the entry is pushed whatever isStarred is
getGistStargazers_always(id, fault, fault2, st, tok) ==
  LET s == isGistStarred(id, fault, st)
      u == Respond(fault2, getAuthenticated(tok))
      first == <<Called("gists.checkIsStarred", Some(id), s.remote)>>
      calls == first \o <<Called("users.getAuthenticated", Null, u)>>
  IN IF s.threw THEN Thrown(s.remote.status, first)
     ELSE IF ~u.ok THEN Thrown(u.status, calls)
     ELSE Returned(<<[user |-> u.data[1], starred_at |-> Now]>>, u, calls)

getGistStargazers(id, fault, fault2, st, tok) ==
  LET s == isGistStarred(id, fault, st)
      u == Respond(fault2, getAuthenticated(tok))
      first == <<Called("gists.checkIsStarred", Some(id), s.remote)>>
      calls == first \o <<Called("users.getAuthenticated", Null, u)>>
  IN IF s.threw THEN Thrown(s.remote.status, first)
     ELSE IF ~u.ok THEN Thrown(u.status, calls)
     ELSE IF s.ret[1]
       THEN Returned(<<[user |-> u.data[1], starred_at |-> Now]>>, u, calls)
       ELSE Returned(<<>>, u, calls)

(* ---- direct calls of the service ---- *)
Record(op, id, fault, r) ==
  [op |-> op, id |-> id, remote |-> fault, ret |-> r.ret, threw |-> r.threw,
   err |-> r.err, calls |-> r.calls, data |-> r.data]

SvcFrame ==
  UNCHANGED <<session, localStorage, mounted, inflight, location, isSubmitting,
              error, view, guard, lastOp, hist, page, pending, form>>

GetGists(fault, list, draws) ==
  /\ octokit # Null
  /\ svc' = Record("getGists", "none", fault, getGists(fault, list, draws))
  /\ SvcFrame /\ UNCHANGED <<starred, event>>

GetStarredGists(fault, list, draws) ==
  /\ octokit # Null
  /\ svc' = Record("getStarredGists", "none", fault, getStarredGists(fault, list, draws))
  /\ SvcFrame /\ UNCHANGED <<starred, event>>

GetGistById(id, fault) ==
  /\ octokit # Null
  /\ svc' = Record("getGistById", id, fault, getGistById(id, fault))
  /\ SvcFrame /\ UNCHANGED <<starred, event>>

CreateGist(description, files, isPublic, fault) ==
  /\ octokit # Null
  /\ svc' = Record("createGist", "none", fault,
                   createGist(description, files, isPublic, fault))
  /\ SvcFrame /\ UNCHANGED <<starred, event>>

UpdateGist(id, description, files, fault) ==
  /\ octokit # Null
  /\ svc' = Record("updateGist", id, fault, updateGist(id, description, files, fault))
  /\ SvcFrame /\ UNCHANGED <<starred, event>>

DeleteGist(id, fault) ==
  /\ octokit # Null
  /\ svc' = Record("deleteGist", id, fault, deleteGist(id, fault))
  /\ SvcFrame /\ UNCHANGED <<starred, event>>

StarGist(id, fault) ==
  /\ octokit # Null
  /\ svc' = Record("starGist", id, fault, starGist(id, fault))
  /\ starred' = IF fault = "none" THEN starred \cup {id} ELSE starred
  /\ SvcFrame /\ UNCHANGED event

UnstarGist(id, fault) ==
  /\ octokit # Null
  /\ svc' = Record("unstarGist", id, fault, unstarGist(id, fault))
  /\ starred' = IF fault = "none" THEN starred \ {id} ELSE starred
  /\ SvcFrame /\ UNCHANGED event

GetGistStargazers(id, fault, fault2) ==
  /\ octokit # Null
  /\ LET r == getGistStargazers(id, fault, fault2, starred, octokit[1].auth)
     IN svc' = Record("getGistStargazers", id, fault, r)
  /\ SvcFrame /\ UNCHANGED <<starred, event>>

\* the file maps a caller hands to create and update
Content(c) == Some([content |-> c])
CreateFiles == {("a.txt" :> Content("hello")),
                ("a.txt" :> Content("x") @@ "b.txt" :> Content("y"))}
UpdateFiles == {("a.txt" :> Null),
                ("a.txt" :> Null @@ "c.txt" :> Content("x")),
                ("b.txt" :> Content("z"))}

SvcInit ==
  /\ \E t \in Tokens : LoggedInAs(t)
  /\ starred \in SUBSET GistIds
  /\ svc = NoCall
  /\ Idle

\* a remote that fails sends no list
ListAnswers ==
  {<<fault, <<>>, <<>>>> : fault \in GistFaults}
    \cup UNION {{<<"none", list, draws>> : draws \in DrawsFor(list)} : list \in GistLists}

SvcNext ==
  \/ \E a \in ListAnswers : GetGists(a[1], a[2], a[3])
  \/ \E a \in ListAnswers : GetStarredGists(a[1], a[2], a[3])
  \/ \E id \in PageIds, fault \in Faults : GetGistById(id, fault)
  \/ \E description \in {"", "demo"}, files \in CreateFiles, isPublic \in BOOLEAN,
        fault \in Faults : CreateGist(description, files, isPublic, fault)
  \/ \E id \in PageIds, description \in {"", "demo"}, files \in UpdateFiles,
        fault \in Faults : UpdateGist(id, description, files, fault)
  \/ \E id \in PageIds, fault \in Faults : DeleteGist(id, fault)
  \/ \E id \in GistIds, fault \in Faults : StarGist(id, fault)
  \/ \E id \in GistIds, fault \in Faults : UnstarGist(id, fault)
  \/ \E id \in GistIds, fault \in RemoteFaults \cup {"none"} : IsGistStarred(id, fault)
  \/ \E id \in GistIds, fault \in RemoteFaults \cup {"none"}, fault2 \in Faults :
       GetGistStargazers(id, fault, fault2)
  \/ \E t \in Tokens : Login(t)
  \/ \E c \in CallSet : LoginSucceeds(c)
  \/ \E c \in CallSet : LoginFails(c)

SvcSpec == SvcInit /\ [][SvcNext]_vars

(***************************************************************************)
(* Pages under the route guard: their fetch effects                        *)
(***************************************************************************)
MaxFetches == 2

PagePaths ==
  {"/", "/gists", "/gists/g1", "/gists/g2", "/gists/g1/edit", "/gists/g2/edit",
   "/gists/create"}
CreatePath == "/gists/create"
DetailPath(id) == IF id = "g1" THEN "/gists/g1" ELSE "/gists/g2"
EditPath(id) == IF id = "g1" THEN "/gists/g1/edit" ELSE "/gists/g2/edit"

RouteOf(p) ==
  CASE p = "/" -> [route |-> "dashboard", id |-> "none"]
    [] p = "/gists" -> [route |-> "list", id |-> "none"]
    [] p = "/gists/g1" -> [route |-> "detail", id |-> "g1"]
    [] p = "/gists/g2" -> [route |-> "detail", id |-> "g2"]
    [] p = "/gists/g1/edit" -> [route |-> "edit", id |-> "g1"]
    [] p = "/gists/g2/edit" -> [route |-> "edit", id |-> "g2"]
    [] p = CreatePath -> [route |-> "create", id |-> "none"]
    [] OTHER -> [route |-> "none", id |-> "none"]

ErrorOf(route) ==
  CASE route = "dashboard" -> "Failed to load dashboard data. Please try again."
    [] route = "list" -> "Failed to load gists. Please try again."
    [] route = "detail" ->
         "Failed to load gist. It may have been deleted or you may not have permission to view it."
    [] route = "edit" ->
         "Failed to load gist. It may have been deleted or you may not have permission to edit it."
    [] route = "create" -> "Failed to create gist. Please try again."
    [] route = "update" -> "Failed to update gist. Please try again."
    [] OTHER -> "none"

\* the state a page component is mounted with
Mounted(r) ==
  [NoPage EXCEPT !.route = r.route, !.id = r.id, !.isLoading = r.route # "create"]

\* defaultValues of the create form
defaultValues ==
  [description |-> Some(""), public |-> TRUE,
   files |-> <<[originalFilename |-> Null, filename |-> "", content |-> "",
                isDeleted |-> FALSE]>>]

(* ---- Array.prototype.sort with a descending comparator, and slice ---- *)
KeyOf(g, key) == IF key \in DOMAIN g THEN g[key] ELSE 0

RECURSIVE InsertDesc(_, _, _)
InsertDesc(x, sorted, key) ==
  IF sorted = <<>> THEN <<x>>
  ELSE IF KeyOf(Head(sorted), key) >= KeyOf(x, key)
    THEN <<Head(sorted)>> \o InsertDesc(x, Tail(sorted), key)
    ELSE <<x>> \o sorted

RECURSIVE SortDesc(_, _)
SortDesc(list, key) ==
  IF list = <<>> THEN <<>>
  ELSE InsertDesc(list[Len(list)], SortDesc(SubSeq(list, 1, Len(list) - 1), key), key)

RecentCount == 5
Slice(list, n) == SubSeq(list, 1, IF Len(list) < n THEN Len(list) ELSE n)

(* ---- fetch effects ---- *)
\* setIsLoading(true); setError(null)
fetch_start(p) == [p EXCEPT !.isLoading = TRUE, !.error = Null]

ListsFetch(r) ==
  [kind |-> "lists", route |-> r.route, id |-> r.id, mine |-> Null,
   starred |-> Null, orphan |-> FALSE]
GistFetch(r) ==
  [kind |-> "gist", route |-> r.route, id |-> r.id, mine |-> Null,
   starred |-> Null, orphan |-> FALSE]
FetchOf(r) == IF r.route \in {"dashboard", "list"} THEN ListsFetch(r) ELSE GistFetch(r)

\* Promise.all of the two list calls
PromiseAll(f) ==
  IF \/ (f.mine # Null /\ f.mine[1].threw)
     \/ (f.starred # Null /\ f.starred[1].threw)
    THEN "rejected"
    ELSE IF f.mine # Null /\ f.starred # Null THEN "fulfilled"
    ELSE "pending"

\* variant: the error is set but the spinner stays
fetch_catch_keepsLoading(p) == [p EXCEPT !.error = Some(ErrorOf(p.route))]

\* catch and finally of a fetch effect
fetch_catch(p) == [p EXCEPT !.error = Some(ErrorOf(p.route)), !.isLoading = FALSE]

\* variant: the list that did arrive is shown next to the error
fetchData_partial(p, f) ==
  IF PromiseAll(f) = "fulfilled"
    THEN [p EXCEPT
            !.gists = Slice(SortDesc(f.mine[1].ret[1], "updated_at"), RecentCount),
            !.starredGists =
               Slice(SortDesc(f.starred[1].ret[1], "stargazers_count"), RecentCount),
            !.isLoading = FALSE]
    ELSE [fetch_catch(p) EXCEPT
            !.gists = IF f.mine # Null /\ ~f.mine[1].threw
                        THEN f.mine[1].ret[1] ELSE @,
            !.error = Null]

\* Dashboard: what follows the await of Promise.all
fetchData(p, f) ==
  IF PromiseAll(f) = "fulfilled"
    THEN [p EXCEPT
            !.gists = Slice(SortDesc(f.mine[1].ret[1], "updated_at"), RecentCount),
            !.starredGists =
               Slice(SortDesc(f.starred[1].ret[1], "stargazers_count"), RecentCount),
            !.isLoading = FALSE]
    ELSE fetch_catch(p)

\* GistListPage: what follows the await of Promise.all
fetchGists(p, f) ==
  IF PromiseAll(f) = "fulfilled"
    THEN [p EXCEPT !.gists = f.mine[1].ret[1],
                   !.starredGists = f.starred[1].ret[1],
                   !.isLoading = FALSE]
    ELSE fetch_catch(p)

\* GistDetailPage and GistEditPage: what follows the await of getGistById
fetchGist(p, r) ==
  IF r.threw THEN fetch_catch(p)
  ELSE [p EXCEPT !.gist = r.ret, !.isLoading = FALSE]

FileOrder == <<"a.txt", "b.txt", "c.txt">>

\* Object.entries(gistData.files).map(...)
DraftsOf(files) ==
  LET names == SelectSeq(FileOrder, LAMBDA n : n \in DOMAIN files)
  IN [i \in 1..Len(names) |->
        [originalFilename |-> Some(names[i]), filename |-> names[i],
         content |-> files[names[i]], isDeleted |-> FALSE]]

\* form.reset({...}) of the edit page
form_reset(g) ==
  [description |-> Some(g.description), public |-> TRUE, files |-> DraftsOf(g.files)]

\* what the page renders
PageView(p) ==
  IF p.route = "none" THEN [kind |-> "none", gists |-> <<>>, starredGists |-> <<>>, gist |-> Null]
  ELSE IF p.isLoading
    THEN [kind |-> "spinner", gists |-> <<>>, starredGists |-> <<>>, gist |-> Null]
  ELSE IF p.error # Null \/ (p.route \in {"detail", "edit"} /\ p.gist = Null)
    THEN [kind |-> "error", gists |-> <<>>, starredGists |-> <<>>, gist |-> Null]
  ELSE [kind |-> "data", gists |-> p.gists, starredGists |-> p.starredGists,
        gist |-> p.gist]

(* ---- navigation between pages and the answers to their fetches ---- *)
Unmounted(fetches) == BagOfAll(LAMBDA f : [f EXCEPT !.orphan = TRUE], fetches)

PageFrame ==
  UNCHANGED <<session, localStorage, mounted, inflight, isSubmitting, error, view,
              starred, svc, lastOp, hist>>

\* the router shows path p; a component of another route is unmounted and the
\* new one mounted (its effect runs once, twice under StrictMode); the same
\* route with another id keeps its component and reruns the effect; the route
\* and id already shown rerun nothing
Show(p, runs, calls) ==
  LET r == RouteOf(p)
      same == r.route = page.route
      here == same /\ r.id = page.id
  IN /\ page' = IF here THEN page
                ELSE IF same THEN fetch_start([page EXCEPT !.id = r.id])
                ELSE IF r.route = "create" THEN Mounted(r)
                ELSE fetch_start(Mounted(r))
     /\ pending' = IF here THEN calls
                   ELSE IF same THEN calls (+) SetToBag({FetchOf(r)})
                   ELSE IF r.route = "create" THEN Unmounted(calls)
                   ELSE Unmounted(calls) (+) Copies(FetchOf(r), runs)
     /\ form' = IF same THEN form
                ELSE IF r.route = "create" THEN defaultValues
                ELSE NoForm
     /\ location' = [pathname |-> p, from |-> Null]
     /\ guard' = [out |-> "outlet", at |-> p]

VisitPage(p, runs) ==
  LET r == RouteOf(p)
  IN /\ octokit # Null
     /\ view = "outlet"
     /\ <<r.route, r.id>> # <<page.route, page.id>>
     /\ BagCardinality(pending) + runs <= MaxFetches
     /\ r.route = page.route => runs = 1
     /\ Show(p, runs, pending)
     /\ event' = [NoEvent EXCEPT !.kind = "visit"]
     /\ PageFrame

\* one of the two list calls of a pending Promise.all is answered
AnswerList(f, which, a) ==
  /\ f \in BagToSet(pending)
  /\ f.kind = "lists"
  /\ f[which] = Null
  /\ LET r == IF which = "mine" THEN getGists(a[1], a[2], a[3])
              ELSE getStarredGists(a[1], a[2], a[3])
         g == [f EXCEPT ![which] = Some(r)]
         settles == PromiseAll(f) = "pending" /\ PromiseAll(g) # "pending"
         rest == pending (-) SetToBag({f})
     IN /\ pending' = IF g.mine # Null /\ g.starred # Null THEN rest
                      ELSE rest (+) SetToBag({g})
        /\ page' = IF settles /\ ~f.orphan
                     THEN IF f.route = "dashboard" THEN fetchData(page, g)
                          ELSE fetchGists(page, g)
                     ELSE page
        /\ event' = [kind |-> "answer", fetch |-> Some(g), threw |-> r.threw,
                     toast |-> Null]
  /\ UNCHANGED <<form, location, guard>>
  /\ PageFrame

\* the getGistById call of a detail or edit page is answered
AnswerGist(f, fault) ==
  /\ f \in BagToSet(pending)
  /\ f.kind = "gist"
  /\ LET r == getGistById(f.id, fault)
     IN /\ pending' = pending (-) SetToBag({f})
        /\ page' = IF f.orphan THEN page ELSE fetchGist(page, r)
        /\ form' = IF ~f.orphan /\ f.route = "edit" /\ ~r.threw
                     THEN form_reset(r.ret[1]) ELSE form
        /\ event' = [kind |-> "answer", fetch |-> Some(f), threw |-> r.threw,
                     toast |-> Null]
  /\ UNCHANGED <<location, guard>>
  /\ PageFrame

\* the answers the remote gives to the list calls of a page
G1 == RemoteGists["g1"]
G2 == RemoteGists["g2"]
PageAnswers ==
  {<<"network_error", <<>>, <<>>>>,
   <<"none", <<G1, G2>>, <<<<0, 1>>, <<999, 1000>>>>>>,
   <<"none", <<G2>>, <<<<999, 1000>>>>>>}

PageInit ==
  /\ LoggedInAs("ghp_a")
  /\ starred = {}
  /\ svc = NoCall
  /\ Idle

PageNext ==
  \/ \E p \in PagePaths, runs \in 1..2 : VisitPage(p, runs)
  \/ \E f \in BagToSet(pending), which \in {"mine", "starred"}, a \in PageAnswers :
       AnswerList(f, which, a)
  \/ \E f \in BagToSet(pending), fault \in {"none", "not_found"} : AnswerGist(f, fault)

PageSpec == PageInit /\ [][PageNext]_vars

(***************************************************************************)
(* Create and edit forms                                                   *)
(***************************************************************************)
MaxFiles == 2

Names == {"", "a.txt", "b.txt", "c.txt"}
Contents == {"", "z"}
Descriptions == {Null, Some(""), Some("demo")}

\* gistFormSchema of both pages
gistFormSchema(values) ==
  /\ Len(values.files) >= 1
  /\ \A i \in 1..Len(values.files) :
       values.files[i].filename # "" /\ values.files[i].content # ""

\* data.description || ''
OrEmpty(description) == IF description = Null THEN "" ELSE description[1]

\* filesObj[k] = v
Assign(obj, k, v) == (k :> v) @@ obj

\* GistCreatePage: data.files.forEach
RECURSIVE createFilesObj(_)
createFilesObj(files) ==
  IF files = <<>> THEN <<>>
  ELSE LET file == files[Len(files)]
       IN Assign(createFilesObj(SubSeq(files, 1, Len(files) - 1)),
                 file.filename, Content(file.content))

\* variant: a renamed file is written under its new name only
editFile_keepsOld(obj, file) ==
  IF file.isDeleted /\ file.originalFilename # Null
    THEN Assign(obj, file.originalFilename[1], Null)
    ELSE Assign(obj, file.filename, Content(file.content))

\* GistEditPage: the body of data.files.forEach
editFile(obj, file) ==
  IF file.isDeleted /\ file.originalFilename # Null
    THEN Assign(obj, file.originalFilename[1], Null)
  ELSE IF file.originalFilename # Null /\ file.originalFilename[1] # file.filename
    THEN Assign(Assign(obj, file.originalFilename[1], Null),
                file.filename, Content(file.content))
  ELSE Assign(obj, file.filename, Content(file.content))

RECURSIVE editFilesObj(_)
editFilesObj(files) ==
  IF files = <<>> THEN <<>>
  ELSE editFile(editFilesObj(SubSeq(files, 1, Len(files) - 1)), files[Len(files)])

\* variant: the visibility flag is not forwarded
createCall_alwaysPublic(values) ==
  [kind |-> "create", route |-> "create", id |-> "none", orphan |-> FALSE,
   args |-> CreateArgs(OrEmpty(values.description), createFilesObj(values.files), TRUE)]

\* GistCreatePage onSubmit: the call it issues
createCall(values) ==
  [kind |-> "create", route |-> "create", id |-> "none", orphan |-> FALSE,
   args |-> CreateArgs(OrEmpty(values.description), createFilesObj(values.files),
                       values.public)]

\* GistEditPage onSubmit: the call it issues
updateCall(id, values) ==
  [kind |-> "update", route |-> "edit", id |-> id, orphan |-> FALSE,
   args |-> UpdateArgs(id, OrEmpty(values.description), editFilesObj(values.files))]

\* setIsSubmitting(true); setError(null)
submit_start(p) == [p EXCEPT !.isSubmitting = TRUE, !.error = Null]
\* catch and finally of onSubmit
submit_catch(p, msg) == [p EXCEPT !.error = Some(msg), !.isSubmitting = FALSE]

RemoveAt(files, i) == SubSeq(files, 1, i - 1) \o SubSeq(files, i + 1, Len(files))

NewDraft ==
  [originalFilename |-> Null, filename |-> "", content |-> "", isDeleted |-> FALSE]

\* the form of the page is on screen and no submission is under way (a change
\* made while one is under way has no effect before the submission is answered)
Editable ==
  /\ octokit # Null
  /\ ~page.isSubmitting
  /\ \/ page.route = "create"
     \/ page.route = "edit" /\ ~page.isLoading /\ page.error = Null /\ page.gist # Null

FormFrame ==
  UNCHANGED <<session, localStorage, mounted, inflight, isSubmitting, error, view,
              starred, lastOp, hist, location, guard>>

Edited == event' = [NoEvent EXCEPT !.kind = "edit"]

SetDescription(description) ==
  /\ Editable
  /\ form' = [form EXCEPT !.description = description]
  /\ Edited
  /\ UNCHANGED <<page, pending, svc>>
  /\ FormFrame

SetPublic(isPublic) ==
  /\ Editable
  /\ page.route = "create"
  /\ form' = [form EXCEPT !.public = isPublic]
  /\ Edited
  /\ UNCHANGED <<page, pending, svc>>
  /\ FormFrame

SetFilename(i, name) ==
  /\ Editable
  /\ i \in 1..Len(form.files)
  /\ ~form.files[i].isDeleted
  /\ form' = [form EXCEPT !.files[i].filename = name]
  /\ Edited
  /\ UNCHANGED <<page, pending, svc>>
  /\ FormFrame

SetContent(i, content) ==
  /\ Editable
  /\ i \in 1..Len(form.files)
  /\ ~form.files[i].isDeleted
  /\ form' = [form EXCEPT !.files[i].content = content]
  /\ Edited
  /\ UNCHANGED <<page, pending, svc>>
  /\ FormFrame

addNewFile ==
  /\ Editable
  /\ Len(form.files) < MaxFiles
  /\ form' = [form EXCEPT !.files = Append(@, NewDraft)]
  /\ Edited
  /\ UNCHANGED <<page, pending, svc>>
  /\ FormFrame

\* GistCreatePage: the remove button, shown while there is more than one file
removeFile(i) ==
  /\ Editable
  /\ page.route = "create"
  /\ Len(form.files) > 1
  /\ i \in 1..Len(form.files)
  /\ form' = [form EXCEPT !.files = RemoveAt(@, i)]
  /\ Edited
  /\ UNCHANGED <<page, pending, svc>>
  /\ FormFrame

markFileAsDeleted(i) ==
  /\ Editable
  /\ page.route = "edit"
  /\ i \in 1..Len(form.files)
  /\ ~form.files[i].isDeleted
  /\ form' = IF form.files[i].originalFilename # Null
               THEN [form EXCEPT !.files[i].isDeleted = TRUE]
               ELSE [form EXCEPT !.files = RemoveAt(@, i)]
  /\ Edited
  /\ UNCHANGED <<page, pending, svc>>
  /\ FormFrame

restoreFile(i) ==
  /\ Editable
  /\ page.route = "edit"
  /\ i \in 1..Len(form.files)
  /\ form.files[i].isDeleted
  /\ form' = [form EXCEPT !.files[i].isDeleted = FALSE]
  /\ Edited
  /\ UNCHANGED <<page, pending, svc>>
  /\ FormFrame

\* handleSubmit(onSubmit): the resolver passes, the remote call is issued
Submit ==
  /\ Editable
  /\ gistFormSchema(form)
  /\ LET call == IF page.route = "create" THEN createCall(form)
                 ELSE updateCall(page.id, form)
     IN /\ pending' = pending (+) SetToBag({call})
        /\ event' = [kind |-> "submit", fetch |-> Some(call), threw |-> FALSE,
                     toast |-> Null]
  /\ page' = submit_start(page)
  /\ UNCHANGED <<form, svc>>
  /\ FormFrame

\* the remote answers a create or update call; on success the page navigates
\* to the gist's detail page
AnswerSubmit(f, fault, runs) ==
  /\ f \in BagToSet(pending)
  /\ f.kind \in {"create", "update"}
  /\ LET r == IF f.kind = "create"
                THEN createGist(f.args.description, f.args.files, f.args.public, fault)
                ELSE updateGist(f.id, f.args.description, f.args.files, fault)
         rest == pending (-) SetToBag({f})
     IN /\ svc' = Record(IF f.kind = "create" THEN "createGist" ELSE "updateGist",
                         f.id, fault, r)
        /\ event' = [kind |-> "answer", fetch |-> Some(f), threw |-> r.threw,
                     toast |-> IF r.threw THEN Null
                               ELSE IF f.kind = "create"
                                 THEN Toast("Gist created successfully", "default")
                                 ELSE Toast("Gist updated successfully", "default")]
        /\ IF r.threw
             THEN /\ page' = IF f.orphan THEN page
                             ELSE submit_catch(page, ErrorOf(f.kind))
                  /\ pending' = rest
                  /\ UNCHANGED <<form, location, guard>>
             ELSE Show(DetailPath(IF f.kind = "create" THEN r.ret[1].id ELSE f.id),
                       runs, rest)
  /\ UNCHANGED <<session, localStorage, mounted, inflight, isSubmitting, error, view,
                 starred, lastOp, hist>>

\* the create form as mounted, and the edit form of a fetched gist
FormInit ==
  /\ SessionOf("ghp_a")
  /\ starred = {}
  /\ svc = NoCall
  /\ pending = EmptyBag
  /\ \/ /\ Shown(CreatePath)
        /\ page = Mounted(RouteOf(CreatePath))
        /\ form = defaultValues
        /\ event = [NoEvent EXCEPT !.kind = "visit"]
     \/ \E id \in PageIds :
          /\ Shown(EditPath(id))
          /\ page = fetchGist(fetch_start(Mounted([route |-> "edit", id |-> id])),
                              getGistById(id, "none"))
          /\ form = form_reset(RemoteGists[id])
          /\ event = [kind |-> "answer", fetch |-> Some(GistFetch([route |-> "edit", id |-> id])),
                      threw |-> FALSE, toast |-> Null]

FormNext ==
  \/ \E description \in Descriptions : SetDescription(description)
  \/ \E isPublic \in BOOLEAN : SetPublic(isPublic)
  \/ \E i \in 1..MaxFiles, name \in Names : SetFilename(i, name)
  \/ \E i \in 1..MaxFiles, content \in Contents : SetContent(i, content)
  \/ addNewFile
  \/ \E i \in 1..MaxFiles : removeFile(i)
  \/ \E i \in 1..MaxFiles : markFileAsDeleted(i)
  \/ \E i \in 1..MaxFiles : restoreFile(i)
  \/ Submit
  \/ \E f \in BagToSet(pending), fault \in {"none", "network_error"}, runs \in 1..2 :
       AnswerSubmit(f, fault, runs)
  \/ \E f \in BagToSet(pending), fault \in {"none", "not_found"} : AnswerGist(f, fault)

FormSpec == FormInit /\ [][FormNext]_vars

(***************************************************************************)
(* Deleting a gist from its detail page                                    *)
(***************************************************************************)
\* the detail page shows its gist (the delete button and its dialog are part
\* of that view)
DetailShown ==
  /\ octokit # Null
  /\ page.route = "detail"
  /\ PageView(page).kind = "data"

\* the delete button opens the dialog; Cancel closes it unless a deletion runs
setShowDeleteAlert(open) ==
  /\ DetailShown
  /\ page.showDeleteAlert # open
  /\ ~open => ~page.isDeleting
  /\ page' = [page EXCEPT !.showDeleteAlert = open]
  /\ event' = [NoEvent EXCEPT !.kind = "dialog"]
  /\ UNCHANGED <<pending, form, svc>>
  /\ FormFrame

\* handleDeleteGist: the call it issues
deleteCall(id) ==
  [kind |-> "delete", route |-> "detail", id |-> id, orphan |-> FALSE]

\* setIsDeleting(true)
delete_start(p) == [p EXCEPT !.isDeleting = TRUE]
\* finally of handleDeleteGist
delete_finally(p) == [p EXCEPT !.isDeleting = FALSE, !.showDeleteAlert = FALSE]

\* handleDeleteGist, up to the await of deleteGist
handleDeleteGist ==
  /\ DetailShown
  /\ page.showDeleteAlert
  /\ ~page.isDeleting
  /\ page' = delete_start(page)
  /\ pending' = pending (+) SetToBag({deleteCall(page.id)})
  /\ event' = [kind |-> "delete", fetch |-> Some(deleteCall(page.id)), threw |-> FALSE,
               toast |-> Null]
  /\ UNCHANGED <<form, svc>>
  /\ FormFrame

\* the remote answers a delete call: a toast either way, on success the page
\* navigates to the list
AnswerDelete(f, fault, runs) ==
  /\ f \in BagToSet(pending)
  /\ f.kind = "delete"
  /\ LET r == deleteGist(f.id, fault)
         rest == pending (-) SetToBag({f})
     IN /\ svc' = Record("deleteGist", f.id, fault, r)
        /\ event' = [kind |-> "answer", fetch |-> Some(f), threw |-> r.threw,
                     toast |-> IF r.threw
                                 THEN Toast("Failed to delete gist", "destructive")
                                 ELSE Toast("Gist deleted successfully", "default")]
        /\ IF r.threw
             THEN /\ page' = IF f.orphan THEN page ELSE delete_finally(page)
                  /\ pending' = rest
                  /\ UNCHANGED <<form, location, guard>>
             ELSE Show("/gists", runs, rest)
  /\ UNCHANGED <<session, localStorage, mounted, inflight, isSubmitting, error, view,
                 starred, lastOp, hist>>

\* the pages of a logged-in session: visits, fetches, deletions, and the forms
\* filled in with one name and one content
AppPaths == {"/", "/gists", "/gists/g1", "/gists/g1/edit", "/gists/create"}
AppAnswers == {<<"network_error", <<>>, <<>>>>, <<"none", <<G2>>, <<<<999, 1000>>>>>>}

AppNext ==
  \/ \E p \in AppPaths, runs \in {1} : VisitPage(p, runs)
  \/ \E f \in BagToSet(pending), which \in {"mine", "starred"}, a \in AppAnswers :
       AnswerList(f, which, a)
  \/ \E f \in BagToSet(pending), fault \in {"none", "not_found"} : AnswerGist(f, fault)
  \/ \E i \in 1..MaxFiles : SetFilename(i, "a.txt")
  \/ \E i \in 1..MaxFiles : SetContent(i, "z")
  \/ Submit
  \/ \E f \in BagToSet(pending), fault \in {"none", "network_error"}, runs \in {1} :
       AnswerSubmit(f, fault, runs)
  \/ \E open \in BOOLEAN : setShowDeleteAlert(open)
  \/ handleDeleteGist
  \/ \E f \in BagToSet(pending), fault \in {"none", "network_error"}, runs \in {1} :
       AnswerDelete(f, fault, runs)

AppSpec == PageInit /\ [][AppNext]_vars

(***************************************************************************)
(* Properties                                                              *)
(***************************************************************************)
Stored == localStorage[TokenKey]
Settled == lastOp.op \in {"loginOk", "loginFail"}
LoggedOut(s) ==
  /\ ~s.isAuthenticated
  /\ s.token = Null
  /\ s.user = Null
  /\ s.octokit = Null
  /\ s.stored[TokenKey] = Null

\* C1: in every reachable state, authenticated implies that the identity and
\* the client handle are both present.
C1_AuthenticatedHasIdentityAndHandle ==
  isAuthenticated => (user # Null /\ octokit # Null)

C1_Witness ==
  /\ isAuthenticated /\ user # Null /\ octokit # Null
  /\ lastOp.op = "loginOk"
  /\ lastOp.pre.isAuthenticated
  /\ inflight # EmptyBag

\* C2 (as stated): after a login whose probe failed, an error was signalled,
\* no token is persisted and authenticated is false, whatever the prior state.
C2_FailedLoginLeavesLoggedOut ==
  lastOp.probe = "fail" =>
    (lastOp.threw /\ Stored = Null /\ ~isAuthenticated)

\* C2 (amended): a login whose probe failed signals an error and leaves
\* authenticated, token, identity, handle and the persisted token as they
\* were when the probe answered (the mount effect's handler alone removes the
\* persisted token); a login completes without error only if its probe
\* succeeded.
C2_FailedLoginSignalsAndKeepsState ==
  /\ lastOp.probe = "fail" =>
       /\ lastOp.threw
       /\ isAuthenticated = lastOp.pre.isAuthenticated
       /\ token = lastOp.pre.token
       /\ user = lastOp.pre.user
       /\ octokit = lastOp.pre.octokit
       /\ Stored = IF lastOp.origin = "mount" THEN Null
                   ELSE lastOp.pre.stored[TokenKey]
       /\ LoggedOut(lastOp.pre) => (Stored = Null /\ ~isAuthenticated)
  /\ (Settled /\ ~lastOp.threw) => lastOp.probe = "ok"

C2_Witness ==
  /\ lastOp.probe = "fail"
  /\ lastOp.origin = "form"
  /\ lastOp.pre.isAuthenticated
  /\ Stored # Null

\* C3: when login(t) completes after a successful probe, the persisted and
\* the in-memory token are t, authenticated is true, loading is false, the
\* identity is the one the probe returned and the handle is the client built
\* from t.
C3_SuccessfulLoginState ==
  lastOp.op = "loginOk" =>
    LET t == lastOp.tok[1]
    IN /\ Stored = <<t>>
       /\ token = <<t>>
       /\ isAuthenticated
       /\ ~isLoading
       /\ user = <<[login |-> UserOf[t]]>>
       /\ octokit = <<[auth |-> t]>>

C3_Witness ==
  /\ lastOp.op = "loginOk"
  /\ lastOp.origin = "form"
  /\ probes = 1
  /\ inflight = EmptyBag
  /\ token = <<"ghp_b">>
  /\ user = <<[login |-> "bob"]>>

\* C4: logout, in any session state, completes without error and leaves no
\* persisted token, no in-memory token, no identity, no handle and
\* authenticated false.
C4_LogoutClearsSession ==
  lastOp.op = "logout" =>
    /\ ~lastOp.threw
    /\ Stored = Null
    /\ token = Null
    /\ user = Null
    /\ octokit = Null
    /\ ~isAuthenticated

C4_Witness ==
  /\ lastOp.op = "logout"
  /\ lastOp.pre.isAuthenticated
  /\ lastOp.pre.stored[TokenKey] # Null
  /\ ~isAuthenticated

\* C5: logout in an already logged-out state changes no session field and
\* nothing in storage.
C5_LogoutIdempotent ==
  (lastOp.op = "logout" /\ LoggedOut(lastOp.pre)) =>
    (Snapshot = lastOp.pre /\ ~lastOp.threw)

C5_Witness ==
  /\ lastOp.op = "logout"
  /\ LoggedOut(lastOp.pre)
  /\ lastOp.pre.isLoading
  /\ Snapshot = lastOp.pre

\* C6: started with a persisted token and left alone, the session settles
\* with loading false; authenticated if the startup probes succeeded, not
\* authenticated and with the persisted token removed if they failed; and
\* no login is attempted beyond the runs of the mount effect.
StartupDone == mounted /\ inflight = EmptyBag

C6_StartupSettled ==
  (StartupDone /\ bootToken # Null) =>
    /\ ~isLoading
    /\ probes = mountRuns
    /\ bootOk + bootFail = mountRuns
    /\ bootFail = 0 => (isAuthenticated /\ token = bootToken /\ Stored = bootToken)
    /\ bootOk = 0 => (~isAuthenticated /\ Stored = Null /\ token = Null)

C6_SilentStartupLogin ==
  /\ [](C6_StartupSettled)
  /\ [](probes <= mountRuns)
  /\ <>[](StartupDone /\ ~isLoading)

C6_Witness ==
  /\ StartupDone
  /\ bootToken # Null
  /\ mountRuns = 2
  /\ bootFail = 2
  /\ ~isAuthenticated
  /\ Stored = Null

\* C7: the session starts loading, unauthenticated, with no token, identity
\* or handle; without a persisted token loading becomes false, no probe is
\* issued, authenticated stays false and nothing is written to storage.
InitialSession ==
  /\ isLoading /\ ~isAuthenticated
  /\ token = Null /\ user = Null /\ octokit = Null

C7_StartupWithoutToken ==
  /\ [](~mounted => InitialSession)
  /\ [](bootToken = Null =>
          /\ probes = 0
          /\ ~isAuthenticated
          /\ Stored = Null
          /\ inflight = EmptyBag
          /\ mounted => ~isLoading)
  /\ (bootToken = Null) ~> (mounted /\ ~isLoading)

C7_Witness ==
  /\ bootToken = Null
  /\ mounted
  /\ mountRuns = 2
  /\ ~isLoading
  /\ probes = 0

\* C8: the guard's output is a function of (loading, authenticated): the wait
\* indicator exactly when loading, a redirect to /login carrying the
\* requested location exactly when not loading and not authenticated, the
\* nested content exactly when not loading and authenticated.
C8_RouteGuard ==
  /\ guard.out # "none" =>
       /\ guard.at \in ProtectedPaths
       /\ guard.out = "spinner" <=> isLoading
       /\ guard.out = "redirect" <=> (~isLoading /\ ~isAuthenticated)
       /\ guard.out = "outlet" <=> (~isLoading /\ isAuthenticated)
       /\ guard.out = "redirect" =>
            location = [pathname |-> "/login", from |-> <<guard.at>>]
       /\ guard.out # "redirect" => location.pathname = guard.at
  /\ location.pathname \in ProtectedPaths => guard.out \in {"spinner", "outlet"}
  /\ view = "outlet" <=> guard.out = "outlet"
  /\ view = "spinner" <=> guard.out = "spinner"

C8_Witness ==
  /\ guard.out = "redirect"
  /\ guard.at = "/gists"
  /\ lastOp.op = "loginFail"
  /\ lastOp.pre.isLoading
  /\ location = [pathname |-> "/login", from |-> <<"/gists">>]

\* C9: a successful login from the login page navigates to the path the
\* guard captured when it redirected, and to "/" when none was captured.
C9_ReturnToOrigin ==
  /\ guard.out = "redirect" => location.from = <<guard.at>>
  /\ lastOp.op = "submit" => (location.pathname = "/login" /\ lastOp.from = location.from)
  /\ (lastOp.op = "loginOk" /\ lastOp.origin = "form") =>
       /\ location.pathname = IF lastOp.from = Null THEN "/" ELSE lastOp.from[1]
       /\ view = "outlet"
  /\ lastOp.origin = "header" => (location.from = Null /\ location.pathname = "/login")

C9_Witness ==
  /\ lastOp.op = "loginOk"
  /\ lastOp.origin = "form"
  /\ lastOp.from = <<"/gists">>
  /\ location.pathname = "/gists"
  /\ view = "outlet"

\* C10: isGistStarred never signals a failure: it returns true exactly when
\* the remote check succeeds and false when it fails for any reason.
C10_IsStarredNeverFails ==
  svc.op = "isGistStarred" =>
    /\ ~svc.threw
    /\ svc.ret = <<svc.remote = "no_content">>
    /\ svc.remote = "no_content" => svc.id \in starred

C10_Witness ==
  /\ svc.op = "isGistStarred"
  /\ svc.remote = "network_error"
  /\ svc.id \in starred
  /\ svc.ret = <<FALSE>>

\* C18: concurrent logins are last-write-wins: token, identity and handle
\* always come from one and the same login call, and after a successful
\* completion they and the persisted token are those of that call.
C18_LastWriteWins ==
  /\ \/ (token = Null /\ user = Null /\ octokit = Null)
     \/ \E t \in Tokens :
          /\ token = <<t>>
          /\ user = <<[login |-> UserOf[t]]>>
          /\ octokit = <<[auth |-> t]>>
  /\ lastOp.op = "loginOk" =>
       /\ token = lastOp.tok
       /\ Stored = lastOp.tok
       /\ user = <<[login |-> UserOf[lastOp.tok[1]]]>>
       /\ octokit = <<[auth |-> lastOp.tok[1]]>>

\* two calls in all, A answered while B was pending, then B answered
C18_Witness ==
  /\ lastOp.op = "loginOk"
  /\ lastOp.origin = "direct"
  /\ lastOp.tok = <<"ghp_b">>
  /\ lastOp.pre.token = <<"ghp_a">>
  /\ ~lastOp.pre.isLoading
  /\ probes = 2
  /\ bootToken = Null
  /\ inflight = EmptyBag
  /\ token = <<"ghp_b">>

\* C20: the session manager touches the key 'github_token' only: no step
\* creates, changes or removes another key, and the key only ever changes to
\* absent or to the raw token of the login call that has just succeeded.
C20_OnlyTokenKey ==
  /\ [](Stored # Null => Stored[1] \in Tokens)
  /\ [][/\ DOMAIN localStorage' = DOMAIN localStorage
        /\ localStorage'[ThemeKey] = localStorage[ThemeKey]
        /\ localStorage'[TokenKey] # localStorage[TokenKey] =>
             \/ localStorage'[TokenKey] = Null
             \/ (lastOp'.op = "loginOk" /\ localStorage'[TokenKey] = lastOp'.tok)]_vars

C20_Witness ==
  /\ lastOp.op = "loginOk"
  /\ Stored = lastOp.tok
  /\ lastOp.pre.stored[TokenKey] = Null
  /\ localStorage[ThemeKey] = <<"dark">>

(* ---- gist service ---- *)
PropagatingOps ==
  {"getGists", "getStarredGists", "getGistById", "createGist", "updateGist",
   "deleteGist", "starGist", "unstarGist"}

SomeCallFailed == \E i \in DOMAIN svc.calls : ~svc.calls[i].ok

\* C11: when the remote call of list-mine, list-starred, get-by-id, create,
\* update, delete, star or unstar fails, the operation fails with that error
\* and returns no result.
C11_RemoteFailurePropagates ==
  (svc.op \in PropagatingOps /\ SomeCallFailed) =>
    /\ svc.threw
    /\ svc.err = svc.remote
    /\ svc.err \in GistFaults
    /\ svc.ret = Null

C11_Witness ==
  /\ svc.op = "updateGist"
  /\ svc.remote = "not_found"
  /\ svc.threw
  /\ svc.err = "not_found"
  /\ svc.ret = Null

\* C12: a stargazer list that is returned has at most one entry: one entry
\* with the caller's own identity when is-starred is true for the identifier,
\* and no entry when it is false.
C12_StargazersFromOwnStar ==
  [][(svc' # svc /\ svc'.op = "getGistStargazers" /\ ~svc'.threw) =>
       LET list == svc'.ret[1]
           isStarred == isGistStarred(svc'.id, svc'.remote, starred).ret[1]
       IN /\ Len(list) <= 1
          /\ isStarred => /\ Len(list) = 1
                          /\ list[1].user = user[1]
          /\ ~isStarred => list = <<>>]_vars

C12_Witness ==
  /\ svc.op = "getGistStargazers"
  /\ svc.id \in starred
  /\ svc.ret = Some(<<[user |-> [login |-> "bob"], starred_at |-> Now]>>)

\* C13: addStargazersCount never raises; the list it returns has the length
\* and order of its input, every gist keeps its other fields, and every
\* stargazers_count is an integer from 0 to 99, one draw per gist and call.
C13_StarCountAnnotation ==
  svc.op \in {"getGists", "getStarredGists"} =>
    /\ svc.threw <=> SomeCallFailed
    /\ ~svc.threw =>
         LET in == svc.data[1]
             out == svc.ret[1]
         IN /\ Len(out) = Len(in)
            /\ \A i \in 1..Len(in) :
                 /\ DOMAIN out[i] = DOMAIN in[i] \cup {"stargazers_count"}
                 /\ \A f \in DOMAIN in[i] : out[i][f] = in[i][f]
                 /\ out[i].stargazers_count \in 0..99

C13_Witness ==
  /\ svc.op = "getGists"
  /\ ~svc.threw
  /\ svc.data = Some(<<RemoteGists["g2"], RemoteGists["g2"]>>)
  /\ svc.ret[1][1].stargazers_count = 99
  /\ svc.ret[1][2].stargazers_count = 0
  /\ svc.ret[1][1].id = "g2"

Endpoints(calls) == {calls[i].endpoint : i \in DOMAIN calls}

\* a login call begun issues one probe; an answered probe issues none
OneProbePerLogin ==
  [][IF BagCardinality(inflight') > BagCardinality(inflight)
       THEN /\ BagCardinality(inflight') = BagCardinality(inflight) + 1
            /\ probes' = probes + 1
       ELSE probes' = probes]_vars

EachCallOnce == Cardinality(Endpoints(svc.calls)) = Len(svc.calls)

\* C17 as stated: no operation repeats a remote call, and no operation issues
\* a remote call after one of its remote calls has failed.
C17_NoCallAfterFailure ==
  /\ EachCallOnce
  /\ \A i \in DOMAIN svc.calls : ~svc.calls[i].ok => i = Len(svc.calls)

\* C17: a login call issues exactly one identity probe; a service operation
\* issues each of its remote calls at most once, and none after a remote call
\* that failed, except that the stargazer list asks for the caller's identity
\* once after its is-starred check, whatever the check answered.
C17_NoRetries ==
  /\ OneProbePerLogin
  /\ [](/\ EachCallOnce
        /\ svc.op # "getGistStargazers" =>
             \A i \in DOMAIN svc.calls : ~svc.calls[i].ok => i = Len(svc.calls)
        /\ svc.op = "getGistStargazers" =>
             /\ Len(svc.calls) = 2
             /\ svc.calls[1].endpoint = "gists.checkIsStarred"
             /\ svc.calls[2].endpoint = "users.getAuthenticated")

C17_Witness ==
  /\ svc.op = "getGistStargazers"
  /\ svc.remote = "network_error"
  /\ ~svc.calls[1].ok
  /\ svc.calls[2].ok
  /\ svc.ret = Some(<<>>)
  /\ probes = 3
  /\ lastOp.op = "loginFail"

(* ---- pages ---- *)
ListPages == {"dashboard", "list"}

\* C14: the dashboard and the list page issue list-mine and list-starred
\* together and join them: the page's lists change only when both calls have
\* succeeded; once either call has failed the page is in its error state, not
\* loading, and renders no list, whatever the other call answers.
C14_JoinedListFetch ==
  /\ [][(event'.kind = "visit" /\ page'.route \in ListPages) =>
          ListsFetch(RouteOf(location'.pathname)) \in BagToSet(pending')]_vars
  /\ [][(event'.kind = "answer" /\ event'.fetch[1].kind = "lists") =>
          LET f == event'.fetch[1]
          IN /\ (page'.gists # page.gists \/ page'.starredGists # page.starredGists)
                  => (PromiseAll(f) = "fulfilled" /\ ~f.orphan)
             /\ (PromiseAll(f) = "rejected" /\ ~f.orphan) =>
                  /\ page'.error = Some(ErrorOf(f.route))
                  /\ ~page'.isLoading
                  /\ page'.gists = page.gists
                  /\ page'.starredGists = page.starredGists
                  /\ PageView(page').kind = "error"
                  /\ PageView(page').gists = <<>>
                  /\ PageView(page').starredGists = <<>>]_vars
  /\ [][(page.route \in ListPages /\ page.error # Null /\ event'.kind = "answer") =>
          (page'.error # Null /\ ~page'.isLoading)]_vars

C14_Witness ==
  /\ page.route = "dashboard"
  /\ event.kind = "answer"
  /\ event.fetch[1].route = "dashboard"
  /\ ~event.fetch[1].orphan
  /\ event.fetch[1].mine # Null
  /\ event.fetch[1].mine[1].threw
  /\ event.fetch[1].starred # Null
  /\ Len(event.fetch[1].starred[1].ret[1]) = 2
  /\ page.error # Null
  /\ page.gists = <<>>
  /\ page.starredGists = <<>>
  /\ pending = EmptyBag

\* C19: the answer to a fetch that was issued by a view other than the one
\* now displayed (a page that was left, or the same page for another id)
\* changes neither the data, nor the error, nor the loading state displayed.
C19_LateResponseDiscarded ==
  [][(/\ event'.kind = "answer"
      /\ \/ event'.fetch[1].orphan
         \/ event'.fetch[1].route # page.route
         \/ event'.fetch[1].id # page.id) =>
       (page' = page /\ form' = form)]_vars

(* ---- forms ---- *)
NamesOf(d) ==
  {d.filename} \cup (IF d.originalFilename # Null THEN {d.originalFilename[1]} ELSE {})

\* no name, original or current, of one draft is a name of another draft
PairwiseDistinct(files) ==
  \A i, j \in 1..Len(files) : i # j => NamesOf(files[i]) \cap NamesOf(files[j]) = {}

FlaggedDeleted(d) == d.isDeleted /\ d.originalFilename # Null
Renamed(d) ==
  ~FlaggedDeleted(d) /\ d.originalFilename # Null /\ d.originalFilename[1] # d.filename

KeysOf(d) ==
  IF FlaggedDeleted(d) THEN {d.originalFilename[1]}
  ELSE IF Renamed(d) THEN {d.originalFilename[1], d.filename}
  ELSE {d.filename}

UpdateSubmitted == event.kind = "submit" /\ event.fetch[1].kind = "update"

\* C15: when the names of the drafts are pairwise distinct, the update payload
\* maps the original name of a draft flagged deleted to the deletion marker,
\* the original name of a renamed draft to the deletion marker and its current
\* name to its content, the name of any other draft to its content, and has
\* no other key.
C15_EditPayload ==
  (UpdateSubmitted /\ PairwiseDistinct(form.files)) =>
    LET payload == event.fetch[1].args.files
        files == form.files
    IN /\ DOMAIN payload = UNION {KeysOf(files[i]) : i \in 1..Len(files)}
       /\ \A i \in 1..Len(files) :
            LET d == files[i]
            IN IF FlaggedDeleted(d) THEN payload[d.originalFilename[1]] = Null
               ELSE IF Renamed(d)
                 THEN /\ payload[d.originalFilename[1]] = Null
                      /\ payload[d.filename] = Some([content |-> d.content])
               ELSE payload[d.filename] = Some([content |-> d.content])

C15_Witness ==
  /\ UpdateSubmitted
  /\ event.fetch[1].id = "g1"
  /\ Len(form.files) = 2
  /\ FlaggedDeleted(form.files[1])
  /\ Renamed(form.files[2])
  /\ form.files[2].filename = "c.txt"
  /\ PairwiseDistinct(form.files)
  /\ event.fetch[1].args.files =
       ("a.txt" :> Null @@ "b.txt" :> Null @@ "c.txt" :> Some([content |-> "y"]))

CreateSubmitted == event.kind = "submit" /\ event.fetch[1].kind = "create"
CreateAnswered == event.kind = "answer" /\ event.fetch[1].kind = "create"

\* C16: the create call receives the form's description ("" when unset), one
\* entry filename -> content per form file when the filenames are distinct,
\* and the form's visibility flag; createGist returns the gist of the remote's
\* answer as it is.
C16_CreateForwardsInputs ==
  /\ CreateSubmitted =>
       LET args == event.fetch[1].args
           files == form.files
       IN /\ args.description = (IF form.description = Null THEN "" ELSE form.description[1])
          /\ args.public = form.public
          /\ (\A i, j \in 1..Len(files) : i # j => files[i].filename # files[j].filename)
               => /\ DOMAIN args.files = {files[i].filename : i \in 1..Len(files)}
                  /\ Cardinality(DOMAIN args.files) = Len(files)
                  /\ \A i \in 1..Len(files) :
                       args.files[files[i].filename] = Some([content |-> files[i].content])
  /\ CreateAnswered =>
       /\ svc.op = "createGist"
       /\ Len(svc.calls) = 1
       /\ svc.calls[1].endpoint = "gists.create"
       /\ svc.calls[1].args = Some(event.fetch[1].args)
       /\ ~svc.threw => (svc.data # Null /\ svc.ret = svc.data)

C16_Witness ==
  /\ CreateAnswered
  /\ ~svc.threw
  /\ svc.ret[1].description = "demo"
  /\ svc.ret[1].public = FALSE
  /\ svc.ret[1].files = ("a.txt" :> "z" @@ "b.txt" :> "z")
  /\ page.route = "detail"
  /\ page.id = NewId

(* ---- session: failures, storage, overlap ---- *)
SameCredentials(s) ==
  /\ isAuthenticated = s.isAuthenticated
  /\ token = s.token
  /\ user = s.user
  /\ octokit = s.octokit

\* C24: login changes nothing but the loading flag when its probe fails: the
\* step that begins it only raises loading, and the step in which it fails
\* only clears loading and leaves authenticated, token, identity, handle and
\* the persisted token as they were; the persisted token is removed by the
\* failure handler of the startup login, not by login.
C24_FailedLoginOnlyTouchesLoading ==
  /\ lastOp.op \in {"login", "submit"} =>
       (SameCredentials(lastOp.pre) /\ localStorage = lastOp.pre.stored /\ isLoading)
  /\ (lastOp.op = "loginFail" /\ lastOp.origin # "mount") =>
       (SameCredentials(lastOp.pre) /\ localStorage = lastOp.pre.stored /\ ~isLoading)
  /\ (lastOp.op = "loginFail" /\ lastOp.origin = "mount") =>
       (SameCredentials(lastOp.pre) /\ Stored = Null /\ ~isLoading)

C24_Witness ==
  /\ lastOp.op = "loginFail"
  /\ lastOp.origin = "direct"
  /\ lastOp.tok = <<"ghp_b">>
  /\ lastOp.pre.isLoading
  /\ isAuthenticated
  /\ token = <<"ghp_a">>
  /\ Stored = <<"ghp_a">>
  /\ octokit = <<[auth |-> "ghp_a"]>>

\* C28: a value is written under the token key only in the step in which the
\* identity probe of a login call succeeds, and it is that call's token; the
\* steps that begin a login or in which a probe fails write nothing.
C28_OnlyValidatedTokensPersisted ==
  /\ [][(localStorage'[TokenKey] # localStorage[TokenKey]
           /\ localStorage'[TokenKey] # Null) =>
          /\ lastOp'.op = "loginOk"
          /\ lastOp'.probe = "ok"
          /\ localStorage'[TokenKey] = lastOp'.tok
          /\ \E c \in BagToSet(inflight) : c.tok = lastOp'.tok[1]
          /\ BagCardinality(inflight') = BagCardinality(inflight) - 1]_vars
  /\ [](lastOp.op \in {"login", "submit", "mount"} => localStorage = lastOp.pre.stored)
  /\ [](lastOp.op = "loginFail" =>
          Stored \in {Null, lastOp.pre.stored[TokenKey]})

C28_Witness ==
  /\ lastOp.op = "loginOk"
  /\ lastOp.probe = "ok"
  /\ lastOp.origin = "form"
  /\ lastOp.pre.stored[TokenKey] = <<"ghp_a">>
  /\ Stored = <<"ghp_b">>

\* C25: whenever authenticated is true the token key holds the in-memory
\* token; and when authenticated is false right after a logout or a failed
\* startup login, the token key holds nothing.
C25_CredentialsAgree ==
  /\ isAuthenticated => (Stored # Null /\ Stored = token)
  /\ (/\ ~isAuthenticated
      /\ \/ lastOp.op = "logout"
         \/ (lastOp.op = "loginFail" /\ lastOp.origin = "mount")) => Stored = Null

\* C26: a login call that was in flight when logout ran (the step after the
\* logout is its answer) neither authenticates the session nor persists its
\* token.
C26_LogoutIsFinal ==
  [][(lastOp.op = "logout" /\ lastOp'.op = "loginOk") =>
       (~isAuthenticated' /\ localStorage'[TokenKey] = Null)]_vars

\* C27: loading is true in every state in which a login call is in flight.
C27_LoadingWhileInFlight == inflight # EmptyBag => isLoading

\* C22: when only the startup login and the login form start login calls, at
\* most one login call is in flight; the form is submitted only while loading
\* is false, no submission is under way and the session is not authenticated.
C22_OneLoginAtATime ==
  /\ [](~bypassed => BagCardinality(inflight) <= 1)
  /\ [][lastOp'.op = "submit" /\ lastOp' # lastOp =>
          (~isLoading /\ ~isSubmitting /\ ~isAuthenticated)]_vars

\* C21: loading is cleared only by the session manager (the answer of a probe, or
\* the mount effect finding no token), never while nothing answered; when every
\* probe is answered, loading always becomes false again, and it stays false
\* until a login call begins.
C21_LoadingAlwaysResolved ==
  /\ [][(isLoading /\ ~isLoading') =>
          \/ lastOp'.op \in {"loginOk", "loginFail"}
          \/ (lastOp'.op = "mount" /\ lastOp'.tok = Null)]_vars
  /\ [][(~isLoading /\ isLoading') => lastOp'.op \in {"login", "submit"}]_vars
  /\ [](isLoading => <>(~isLoading))

C21_Witness ==
  /\ lastOp.op = "loginFail" /\ lastOp.origin = "direct"
  /\ lastOp.pre.isLoading /\ ~isLoading
  /\ inflight = EmptyBag

\* the drafts not flagged deleted carry pairwise distinct current names
SurvivorsDistinct(files) ==
  \A i, j \in 1..Len(files) :
    (i # j /\ ~files[i].isDeleted /\ ~files[j].isDeleted) =>
      files[i].filename # files[j].filename

\* C29: the update payload loses no surviving file: when the surviving drafts
\* carry distinct current names, whatever names they had before, the payload
\* holds the content of every surviving draft under its current name, and it
\* maps the original name of every draft flagged deleted to the deletion marker
\* unless a surviving draft now carries that name.
C29_NoSurvivingFileLost ==
  (UpdateSubmitted /\ SurvivorsDistinct(form.files)) =>
    LET payload == event.fetch[1].args.files
        files == form.files
    IN /\ \A i \in 1..Len(files) :
            ~files[i].isDeleted =>
              /\ files[i].filename \in DOMAIN payload
              /\ payload[files[i].filename] = Some([content |-> files[i].content])
       /\ \A i \in 1..Len(files) :
            (/\ FlaggedDeleted(files[i])
             /\ \A j \in 1..Len(files) :
                  ~files[j].isDeleted => files[j].filename # files[i].originalFilename[1]) =>
              /\ files[i].originalFilename[1] \in DOMAIN payload
              /\ payload[files[i].originalFilename[1]] = Null

\* C30: an update submitted from the edit form carries at least one entry
\* filename -> content.
C30_UpdateKeepsAFile ==
  UpdateSubmitted =>
    \E k \in DOMAIN event.fetch[1].args.files : event.fetch[1].args.files[k] # Null

\* the remote failed a call of the page component that is still mounted
AppFailed == event.kind = "answer" /\ event.threw /\ ~event.fetch[1].orphan

\* C23: when the remote fails a fetch, a submission or a deletion of a mounted
\* page, the page's error indication is set (its error message; for a deletion
\* the destructive toast) and the flag of the operation (loading, submitting,
\* deleting) is false; no answer of a failed gist call changes the session or
\* the persisted token.
C23_FailuresStayOnThePage ==
  /\ [](AppFailed =>
          LET f == event.fetch[1]
          IN CASE f.kind \in {"lists", "gist"} ->
                    page.error = Some(ErrorOf(f.route)) /\ ~page.isLoading
               [] f.kind \in {"create", "update"} ->
                    page.error = Some(ErrorOf(f.kind)) /\ ~page.isSubmitting
               [] f.kind = "delete" ->
                    /\ event.toast = Toast("Failed to delete gist", "destructive")
                    /\ ~page.isDeleting)
  /\ [][(event'.kind = "answer" /\ event'.threw) =>
          (UNCHANGED <<session, localStorage>> /\ isAuthenticated')]_vars

C23_Witness ==
  /\ AppFailed
  /\ event.fetch[1].kind = "delete"
  /\ svc.op = "deleteGist" /\ svc.threw
  /\ page.route = "detail" /\ page.gist # Null
  /\ ~page.isDeleting /\ ~page.showDeleteAlert
  /\ isAuthenticated /\ Stored = token

====
